---- MODULE Spec2Model ----
(***************************************************************************)
(* Model of bulk_picture_watermark.py: the positional batch that pairs the *)
(* name-sorted images of the input directory with the surviving rows of    *)
(* the table, synthesises a timestamp per row, builds the watermark lines, *)
(* geotags the EXIF block and saves the image to every destination folder. *)
(*                                                                         *)
(* Text is modelled as a sequence of one-symbol strings (the symbol "deg"  *)
(* stands for the degree glyph), so that strip(), replace() and split()    *)
(* are computed, not assumed.  A table cell is such a sequence, or NaN for *)
(* an empty field (pandas reads an empty field as NaN).                    *)
(***************************************************************************)
EXTENDS Integers, Sequences, FiniteSets, TLC

VARIABLES csv_rows, listing, df, image_files, pc, idx, current_datetime,
          outputs, dirs, opened, processed, failed, log, last,
          deg_in, deg_out

vars == <<csv_rows, listing, df, image_files, pc, idx, current_datetime,
          outputs, dirs, opened, processed, failed, log, last,
          deg_in, deg_out>>

batch_vars == <<csv_rows, listing, df, image_files, pc, idx, current_datetime,
          outputs, dirs, opened, processed, failed, log, last>>

(***************************************************************************)
(* Bounds of the model.                                                    *)
(***************************************************************************)
MaxRows == 3
ClockRows == 18
DegBits == 3

(***************************************************************************)
(* Text helpers: str.strip, str.replace, str.split, float().               *)
(***************************************************************************)
NaN == <<"NaN">>

WS == {" "}

Digits == {"1", "2"}

DigitVal == [c \in Digits |-> IF c = "1" THEN 1 ELSE 2]

notna(cell) == cell # NaN

RECURSIVE lstrip(_)
lstrip(s) == IF s # <<>> /\ Head(s) \in WS THEN lstrip(Tail(s)) ELSE s

RECURSIVE rstrip(_)
rstrip(s) == IF s # <<>> /\ s[Len(s)] \in WS
             THEN rstrip(SubSeq(s, 1, Len(s) - 1)) ELSE s

strip(s) == rstrip(lstrip(s))

IsNotDegreeGlyph(c) == c # "deg"

replace_degree(s) == SelectSeq(s, IsNotDegreeGlyph)

RECURSIVE split_from(_, _, _)
split_from(s, cur, acc) ==
    IF s = <<>>
    THEN (IF cur = <<>> THEN acc ELSE Append(acc, cur))
    ELSE IF Head(s) \in WS
         THEN split_from(Tail(s), <<>>, IF cur = <<>> THEN acc ELSE Append(acc, cur))
         ELSE split_from(Tail(s), Append(cur, Head(s)), acc)

split(s) == split_from(s, <<>>, <<>>)

Unsigned(tok) == IF tok # <<>> /\ Head(tok) = "-" THEN Tail(tok) ELSE tok

IsFloat(tok) == /\ Unsigned(tok) # <<>>
                /\ \A i \in 1..Len(Unsigned(tok)) : Unsigned(tok)[i] \in Digits

RECURSIVE DecimalValue(_)
DecimalValue(ds) == IF ds = <<>> THEN 0
                    ELSE 10 * DecimalValue(SubSeq(ds, 1, Len(ds) - 1)) + DigitVal[ds[Len(ds)]]

\* float(tok): a number is kept as the fraction num/den
float(tok) == [num |-> IF Head(tok) = "-" THEN 0 - DecimalValue(Unsigned(tok))
                       ELSE DecimalValue(Unsigned(tok)),
               den |-> 1]

NoFloat == [num |-> 0, den |-> 1]

\* a failed parse answered with the origin instead of (None, None)
parse_lat_lon_origin(longlat_str) ==
    LET toks == split(replace_degree(longlat_str))
    IN IF Len(toks) = 2 /\ IsFloat(toks[1]) /\ IsFloat(toks[2])
       THEN [ok |-> TRUE, lat |-> float(toks[1]), lon |-> float(toks[2])]
       ELSE [ok |-> TRUE, lat |-> NoFloat, lon |-> NoFloat]

\* (None, None) is ok = FALSE
parse_lat_lon(longlat_str) ==
    LET toks == split(replace_degree(longlat_str))
    IN IF Len(toks) = 2 /\ IsFloat(toks[1]) /\ IsFloat(toks[2])
       THEN [ok |-> TRUE, lat |-> float(toks[1]), lon |-> float(toks[2])]
       ELSE [ok |-> FALSE, lat |-> NoFloat, lon |-> NoFloat]

(***************************************************************************)
(* to_deg.  The value is the fraction num/den with den a power of two up   *)
(* to 256, which binary64 holds exactly.  Then abs_val - d and             *)
(* (abs_val - d) * 60 are exact, the quotient m / 60 is rounded to the     *)
(* nearest binary64, and the last product is an integer exactly when       *)
(* r2 * 6000 is a multiple of den.  Where m / 60 rounds up                 *)
(* (RoundsUp60), the remainder comes out a few ulps below that integer     *)
(* and int() truncates to the integer below it; in every other case the    *)
(* result of int() is the floor of the exact value.                        *)
(***************************************************************************)
RoundsUp60 == {3, 6, 7, 12, 13, 14, 23, 24, 25, 26, 27, 28, 29, 31, 33, 35,
               37, 39, 41, 43, 46, 48, 50, 52, 54, 56, 58}

Abs(n) == IF n >= 0 THEN n ELSE 0 - n

\* int((abs_val - d - m / 60) * 3600 * 100), r2/(60*den) being the exact remainder
SecondsHundredths(r2, m, den) ==
    LET q == (r2 * 6000) \div den
    IN IF (r2 * 6000) % den = 0 /\ m \in RoundsUp60 /\ q > 0 THEN q - 1 ELSE q

to_deg(value, ref_positive, ref_negative) ==
    LET ref == IF value.num >= 0 THEN ref_positive ELSE ref_negative
        abs_val == Abs(value.num)
        d == abs_val \div value.den
        r1 == abs_val - d * value.den
        m == (r1 * 60) \div value.den
        r2 == r1 * 60 - m * value.den
        s == SecondsHundredths(r2, m, value.den)
    IN [dms |-> << <<d, 1>>, <<m, 1>>, <<s, 100>> >>, ref |-> ref]

(***************************************************************************)
(* The clock: a naive datetime as day offset from 2025-07-01, second of    *)
(* the day and microsecond.                                                *)
(***************************************************************************)
WORK_START == 8
WORK_END == 16
IncMinuteLo == 8
IncMinuteHi == 36
IncSecondHi == 59
RollMinuteHi == 10
RollSecondHi == 59

\* the values drawn for randint(8, 36), randint(0, 59), randint(0, 10) and
\* randint(0, 59): both ends of each range and, for the minutes, an odd value
\* inside it, so that 15:59:59 and 16:00:00 are both reached
IncMinutes == {IncMinuteLo, 21, IncMinuteHi}
IncSeconds == {0, IncSecondHi}
RollMinutes == {0, RollMinuteHi}
RollSeconds == {0, RollSecondHi}

base_datetime == [day |-> 0, sec |-> 8 * 3600, us |-> 0]

hour(t) == t.sec \div 3600
minute(t) == (t.sec % 3600) \div 60
second(t) == t.sec % 60

\* datetime + Timedelta(minutes, seconds)
AddTimedelta(t, minutes, seconds) ==
    LET total == t.sec + minutes * 60 + seconds
    IN [day |-> t.day + total \div 86400, sec |-> total % 86400, us |-> t.us]

\* the end of the day tested with > instead of >=
OutsideWorkingHours_strict(t) == hour(t) > WORK_END

OutsideWorkingHours(t) == hour(t) >= WORK_END

\* replace() without the added day
NextDayStart_sameday(t, rm, rs) ==
    [day |-> t.day, sec |-> WORK_START * 3600 + rm * 60 + rs, us |-> 0]

\* (t + Timedelta(days=1)).replace(hour, minute, second, microsecond=0)
NextDayStart(t, rm, rs) ==
    [day |-> t.day + 1, sec |-> WORK_START * 3600 + rm * 60 + rs, us |-> 0]

MonthLengths == <<31, 31, 30, 31, 30, 31>>
MonthNames == <<"Jul", "Aug", "Sep", "Oct", "Nov", "Dec">>

RECURSIVE MonthIndex(_, _)
MonthIndex(day, k) == IF k = Len(MonthLengths) \/ day < MonthLengths[k] THEN k
                      ELSE MonthIndex(day - MonthLengths[k], k + 1)

RECURSIVE DayOfMonth(_, _)
DayOfMonth(day, k) == IF k = Len(MonthLengths) \/ day < MonthLengths[k] THEN day + 1
                      ELSE DayOfMonth(day - MonthLengths[k], k + 1)

\* strftime("%Y:%m:%d %H:%M:%S")
exif_strftime(t) == <<2025, ":", 6 + MonthIndex(t.day, 1), ":", DayOfMonth(t.day, 1),
                      " ", hour(t), ":", minute(t), ":", second(t)>>

\* strftime("%d %b %Y %H:%M:%S")
display_strftime(t) == <<DayOfMonth(t.day, 1), " ", MonthNames[MonthIndex(t.day, 1)], " ", 2025,
                         " ", hour(t), ":", minute(t), ":", second(t)>>

(***************************************************************************)
(* The EXIF block: a map from IFD name to a map from tag to value.         *)
(***************************************************************************)
EmptyIfd == [t \in {} |-> 0]

EmptyExif == [g \in {"0th", "Exif", "GPS"} |-> EmptyIfd]

SetTag(ifd, tag, v) == [t \in (DOMAIN ifd) \cup {tag} |-> IF t = tag THEN v ELSE ifd[t]]

encode(str) == <<"bytes", str>>

update_exif_metadata(exif_data, date_str, lat, lon) ==
    LET encoded_date == encode(date_str)
        lat_t == to_deg(lat, "N", "S")
        lon_t == to_deg(lon, "E", "W")
        gps == [t \in {"GPSLatitudeRef", "GPSLatitude", "GPSLongitudeRef", "GPSLongitude"} |->
                  CASE t = "GPSLatitudeRef" -> <<"ref", lat_t.ref>>
                    [] t = "GPSLatitude" -> lat_t.dms
                    [] t = "GPSLongitudeRef" -> <<"ref", lon_t.ref>>
                    [] t = "GPSLongitude" -> lon_t.dms]
    IN [g \in DOMAIN exif_data |->
          CASE g = "0th" -> SetTag(exif_data[g], "DateTime", encoded_date)
            [] g = "Exif" -> SetTag(SetTag(exif_data[g], "DateTimeOriginal", encoded_date),
                                    "DateTimeDigitized", encoded_date)
            [] g = "GPS" -> gps
            [] OTHER -> exif_data[g]]

(***************************************************************************)
(* The input directory.  A file is its base name (a number, as in          *)
(* IMG_<n>, so name order is number order), its extension and what is      *)
(* wrong with it: "open" (Image.open or piexif.load raises on it),         *)
(* "render" (drawing on it raises) or "none".                              *)
(***************************************************************************)
lower(ext) == CASE ext = "JPG" -> "jpg" [] ext = "JPEG" -> "jpeg" [] OTHER -> ext

IsImageFile(f) == lower(f.ext) \in {"jpg", "jpeg"}

\* the listing taken in reverse name order
RECURSIVE sorted_reversed(_)
sorted_reversed(S) == IF S = {} THEN <<>>
                      ELSE LET f == CHOOSE x \in S : \A y \in S : x.base >= y.base
                           IN <<f>> \o sorted_reversed(S \ {f})

RECURSIVE sorted(_)
sorted(S) == IF S = {} THEN <<>>
             ELSE LET f == CHOOSE x \in S : \A y \in S : x.base <= y.base
                  IN <<f>> \o sorted(S \ {f})

OldDate == encode(<<2020, ":", 1, ":", 2, " ", 3, ":", 4, ":", 5>>)

RichExif == [g \in {"0th", "Exif", "GPS"} |->
               CASE g = "0th" -> [Make |-> "cam", DateTime |-> OldDate]
                 [] g = "Exif" -> [DateTimeOriginal |-> OldDate, ISOSpeedRatings |-> 100]
                 [] g = "GPS" -> [GPSLatitudeRef |-> <<"ref", "S">>,
                                  GPSLatitude |-> << <<5, 1>>, <<6, 1>>, <<7, 100>> >>,
                                  GPSAltitude |-> <<12, 1>>]]

PlainExif == [g \in {"0th", "Exif", "GPS"} |->
               IF g = "0th" THEN [Make |-> "cam"] ELSE EmptyIfd]

\* img.info.get("exif") of the image in the file
ExifBytes(f) == CASE f.base % 3 = 1 -> [present |-> FALSE, data |-> EmptyExif]
                  [] f.base % 3 = 2 -> [present |-> TRUE, data |-> RichExif]
                  [] OTHER -> [present |-> TRUE, data |-> PlainExif]

ImageSamples == {[base |-> 0, ext |-> "jpeg", defect |-> "open"],
                 [base |-> 1, ext |-> "jpg", defect |-> "none"],
                 [base |-> 2, ext |-> "JPG", defect |-> "none"],
                 [base |-> 3, ext |-> "jpeg", defect |-> "none"],
                 [base |-> 5, ext |-> "jpg", defect |-> "render"]}

OtherFiles == {[base |-> 4, ext |-> "png", defect |-> "none"]}

Listings == {S \cup OtherFiles : S \in SUBSET ImageSamples}

\* destination folders in which img.save raises
Unwritable == {<<"Z">>}

(***************************************************************************)
(* The table.  A row has the identifier column (never read by this         *)
(* script), "File Name", "LONGLAT", the folder columns 2..3 and the        *)
(* watermark columns 5..7.                                                 *)
(***************************************************************************)
MasterTable == <<
    [id |-> 1, FileName |-> <<"P">>, LONGLAT |-> <<"1", " ", "2">>,
     folders |-> << <<"X">>, <<" ">> >>, wm |-> << <<"S">>, NaN, <<"T">> >>],
    [id |-> 1, FileName |-> <<"R">>, LONGLAT |-> <<"2", " ", "-", "1", "2">>,
     folders |-> << <<"X">>, <<"Z">> >>, wm |-> << <<"S">>, <<"T">>, NaN >>],
    [id |-> 2, FileName |-> <<"Q">>, LONGLAT |-> NaN,
     folders |-> << <<"Y">>, NaN >>, wm |-> << <<"S">>, NaN, NaN >>],
    [id |-> 2, FileName |-> <<" ", "Q">>, LONGLAT |-> <<"x">>,
     folders |-> << <<"X">>, <<"Y">> >>, wm |-> << <<" ">>, <<"S">>, NaN >>],
    [id |-> 3, FileName |-> NaN, LONGLAT |-> <<"1", " ", "2">>,
     folders |-> << <<"X">>, NaN >>, wm |-> << NaN, <<"T">>, NaN >>],
    [id |-> 3, FileName |-> <<"R">>, LONGLAT |-> <<" ", "1", " ">>,
     folders |-> << <<"Y">>, <<"W", " ">> >>, wm |-> << <<"T">>, <<"S", " ">>, <<"S">> >>],
    [id |-> 3, FileName |-> <<"P">>, LONGLAT |-> <<"-", "1", "deg", " ", "2", "deg">>,
     folders |-> << NaN, <<"X">> >>, wm |-> << NaN, NaN, NaN >>],
    [id |-> 2, FileName |-> <<"S">>, LONGLAT |-> <<"1", " ", "1", " ", "1">>,
     folders |-> << <<"V">>, <<"V", " ">> >>, wm |-> << <<"T">>, NaN, <<"S">> >>] >>

\* the rows of MasterTable at the positions in P, in table order
RECURSIVE Pick(_, _)
Pick(P, i) == IF i > Len(MasterTable) THEN <<>>
              ELSE (IF i \in P THEN <<MasterTable[i]>> ELSE <<>>) \o Pick(P, i + 1)

Tables == {Pick(P, 1) : P \in {Q \in SUBSET (1..Len(MasterTable)) : Cardinality(Q) <= MaxRows}}

ClockRow == [id |-> 1, FileName |-> <<"P">>, LONGLAT |-> <<"1", " ", "2">>,
             folders |-> << NaN, NaN >>, wm |-> << NaN, NaN, NaN >>]

\* pd.read_csv: the frame keeps each row with its index label
read_csv(rows) == [i \in 1..Len(rows) |-> [index |-> i, row |-> rows[i]]]

HasRequired(r) == notna(r.row.FileName) /\ notna(r.row.LONGLAT)

dropna(frame) == SelectSeq(frame, HasRequired)

\* the count check off by one
TooManyImages_lax(n_images, n_rows) == n_images > n_rows + 1

TooManyImages(n_images, n_rows) == n_images > n_rows

new_filename(row) == strip(row.FileName) \o <<".jpg">>

StripAll(cells) == [i \in 1..Len(cells) |-> strip(cells[i])]

dynamic_lines(row) == StripAll(SelectSeq(row.wm, notna))

IsFolder(cell) == notna(cell) /\ strip(cell) # <<>>

output_folders(row) == StripAll(SelectSeq(row.folders, IsFolder))

watermark_lines(display_datetime, longlat, row) ==
    <<display_datetime, longlat>> \o dynamic_lines(row)

(***************************************************************************)
(* add_watermark.  FailPoint names the statement that raises: "open"       *)
(* (Image.open or piexif.load), "render" (drawing), "save" into the k-th   *)
(* folder, or "none".  The except clause swallows it.                      *)
(***************************************************************************)
FailPoint(file, folders) ==
    LET bad == {j \in 1..Len(folders) : folders[j] \in Unwritable}
    IN CASE file.defect = "open" -> [at |-> "open", k |-> 0]
         [] file.defect = "render" -> [at |-> "render", k |-> 0]
         [] bad # {} -> [at |-> "save", k |-> CHOOSE j \in bad : \A i \in bad : j <= i]
         [] OTHER -> [at |-> "none", k |-> 0]

add_watermark(file, filename, folders, lines, exif_datetime, longlat_str) ==
    LET fail == FailPoint(file, folders)
        exif_bytes == ExifBytes(file)
        loaded == IF exif_bytes.present THEN exif_bytes.data ELSE EmptyExif
        ll == parse_lat_lon(longlat_str)
        exif_data == IF ll.ok THEN update_exif_metadata(loaded, exif_datetime, ll.lat, ll.lon)
                     ELSE loaded
        nsaved == CASE fail.at = "none" -> Len(folders)
                    [] fail.at = "save" -> fail.k - 1
                    [] OTHER -> 0
        ndirs == CASE fail.at = "none" -> Len(folders)
                   [] fail.at = "save" -> fail.k
                   [] OTHER -> 0
    IN [exif_in |-> loaded,
        exif_out |-> exif_data,
        geotagged |-> ll.ok,
        drawn |-> IF fail.at \in {"open", "render"} THEN <<>> ELSE lines,
        saved |-> [j \in 1..nsaved |-> [folder |-> folders[j], name |-> filename]],
        dirs |-> {folders[j] : j \in 1..ndirs},
        fail |-> fail,
        error |-> fail.at # "none"]

\* the exception of a row left uncaught
AfterRow_uncaught(error) == IF error THEN "crashed" ELSE "loop"

\* where process_images_csv goes on after add_watermark returns
AfterRow(error) == "loop"

(***************************************************************************)
(* process_images_csv                                                      *)
(***************************************************************************)
LogEntry(kind, base, folder, name) ==
    [kind |-> kind, base |-> base, folder |-> folder, name |-> name]

Idle == /\ df = <<>> /\ image_files = <<>> /\ idx = 0
        /\ current_datetime = base_datetime
        /\ outputs = {} /\ dirs = {} /\ opened = {} /\ processed = {}
        /\ failed = {} /\ log = {} /\ last = <<>>

Init == /\ csv_rows \in Tables
        /\ listing \in Listings
        /\ pc = "start"
        /\ Idle
        /\ deg_in = <<>> /\ deg_out = <<>>

\* lines 106-127: the clock, the table, the sorted images, the count check
Start ==
    /\ pc = "start"
    /\ df' = dropna(read_csv(csv_rows))
    /\ image_files' = sorted({f \in listing : IsImageFile(f)})
    /\ IF TooManyImages(Len(image_files'), Len(df'))
       THEN /\ pc' = "aborted"
            /\ log' = log \cup {LogEntry("count_error", Len(image_files'), <<>>, <<>>)}
       ELSE /\ pc' = "loop"
            /\ log' = log
    /\ current_datetime' = base_datetime
    /\ UNCHANGED <<csv_rows, listing, idx, outputs, dirs, opened, processed,
                   failed, last, deg_in, deg_out>>

\* img.save(output_path) for each saved path: a file of that path is replaced
SaveAll(files, saved, writer) ==
    LET paths == {saved[j] : j \in 1..Len(saved)}
    IN {o \in files : [folder |-> o.folder, name |-> o.name] \notin paths}
         \cup {[folder |-> q.folder, name |-> q.name, row |-> writer.row,
                image |-> writer.image] : q \in paths}

\* lines 130-173: one iteration of the loop, add_watermark included
ProcessRow ==
    /\ pc = "loop"
    /\ idx < Len(image_files)
    /\ IF idx + 1 > Len(df)
       THEN \* df.iloc[idx] raises IndexError
            /\ pc' = "crashed"
            /\ UNCHANGED <<idx, current_datetime, outputs, dirs, opened,
                           processed, failed, log, last>>
       ELSE LET image_name == image_files[idx + 1]
                r == df[idx + 1]
                row == r.row
                filename == new_filename(row)
                longlat == strip(row.LONGLAT)
                folders == output_folders(row)
            IN \E increment_minutes \in IncMinutes, increment_seconds \in IncSeconds :
                 LET t1 == AddTimedelta(current_datetime, increment_minutes, increment_seconds)
                     roll == OutsideWorkingHours(t1)
                 IN \E rm \in (IF roll THEN RollMinutes ELSE {0}),
                       rs \in (IF roll THEN RollSeconds ELSE {0}) :
                      LET t2 == IF roll THEN NextDayStart(t1, rm, rs) ELSE t1
                          exif_datetime == exif_strftime(t2)
                          display_datetime == display_strftime(t2)
                          lines == watermark_lines(display_datetime, longlat, row)
                          res == add_watermark(image_name, filename, folders, lines,
                                               exif_datetime, longlat)
                      IN /\ current_datetime' = t2
                         /\ opened' = opened \cup {image_name}
                         /\ dirs' = dirs \cup res.dirs
                         /\ outputs' = SaveAll(outputs, res.saved,
                                               [row |-> r.index, image |-> image_name])
                         /\ log' = log
                              \cup {LogEntry("saved", image_name.base, res.saved[j].folder,
                                             res.saved[j].name) : j \in 1..Len(res.saved)}
                              \cup (IF res.error
                                    THEN {LogEntry("error", image_name.base, <<>>, <<>>)}
                                    ELSE {})
                         /\ processed' = processed \cup {r.index}
                         /\ failed' = IF res.error THEN failed \cup {r.index} ELSE failed
                         /\ last' = << [pos |-> idx + 1, index |-> r.index, row |-> row,
                                        image |-> image_name,
                                        prev_day |-> current_datetime.day,
                                        sum |-> t1, ts |-> t2,
                                        exif_datetime |-> exif_datetime,
                                        lines |-> lines,
                                        filename |-> filename, folders |-> folders,
                                        res |-> res] >>
                         /\ idx' = idx + 1
                         /\ pc' = AfterRow(res.error)
    /\ UNCHANGED <<csv_rows, listing, df, image_files, deg_in, deg_out>>

\* the loop is exhausted and process_images_csv returns
Finish ==
    /\ pc = "loop"
    /\ idx = Len(image_files)
    /\ pc' = "done"
    /\ UNCHANGED <<csv_rows, listing, df, image_files, idx, current_datetime,
                   outputs, dirs, opened, processed, failed, log, last,
                   deg_in, deg_out>>

Next == Start \/ ProcessRow \/ Finish

Spec == Init /\ [][Next]_vars

(***************************************************************************)
(* The clock over a long run: ClockRows rows, one image each.              *)
(***************************************************************************)
InitClock ==
    /\ csv_rows = [i \in 1..ClockRows |-> ClockRow]
    /\ listing = {[base |-> i, ext |-> "jpg", defect |-> "none"] : i \in 1..ClockRows}
    /\ pc = "start"
    /\ Idle
    /\ deg_in = <<>> /\ deg_out = <<>>

SpecClock == InitClock /\ [][Next]_vars

(***************************************************************************)
(* to_deg on its own: every latitude and longitude that is a multiple of   *)
(* 1/DegScale of a degree.                                                 *)
(***************************************************************************)
DegScale == 2 ^ DegBits

DegInputs ==
    {[axis |-> "lat", value |-> [num |-> n, den |-> DegScale]] :
        n \in (1 - 90 * DegScale)..(90 * DegScale - 1)}
    \cup {[axis |-> "lon", value |-> [num |-> n, den |-> DegScale]] :
        n \in (1 - 180 * DegScale)..(180 * DegScale - 1)}

InitDeg ==
    /\ deg_in \in {<<x>> : x \in DegInputs}
    /\ deg_out = <<>>
    /\ csv_rows = <<>> /\ listing = {} /\ pc = "to_deg"
    /\ Idle

ApplyToDeg ==
    /\ pc = "to_deg"
    /\ deg_out = <<>>
    /\ deg_out' = << IF deg_in[1].axis = "lat" THEN to_deg(deg_in[1].value, "N", "S")
                     ELSE to_deg(deg_in[1].value, "E", "W") >>
    /\ UNCHANGED <<deg_in, batch_vars>>

NextDeg == ApplyToDeg

SpecDeg == InitDeg /\ [][NextDeg]_vars

(***************************************************************************)
(* Properties.  What they need of the inputs is computed here from         *)
(* csv_rows and listing, not read from df and image_files.                 *)
(***************************************************************************)
Images == {f \in listing : IsImageFile(f)}

ImageRank(f) == Cardinality({g \in Images : g.base <= f.base})

Survivors == SelectSeq(read_csv(csv_rows), HasRequired)

Range(seq) == {seq[j] : j \in 1..Len(seq)}

PathOf(o) == [folder |-> o.folder, name |-> o.name]

\* the (paired row, destination folder) pairs and the path of each
Pairs == UNION {{<<i, j>> : j \in 1..Len(output_folders(Survivors[i].row))} :
                  i \in 1..Cardinality(Images)}

PairPath(p) == [folder |-> output_folders(Survivors[p[1]].row)[p[2]],
                name |-> strip(Survivors[p[1]].row.FileName) \o <<".jpg">>]

PathsDistinct == \A p, q \in Pairs : PairPath(p) = PairPath(q) => p = q

CleanRun == pc = "done" /\ failed = {}

\* C1 as stated: with k <= rows and no failure, the i-th image in name order
\* goes with the i-th surviving row and there is exactly one output file per
\* (paired row, non-empty destination folder), so as many files as pairs.
C1_Original ==
    CleanRun =>
        /\ \A o \in outputs : o.row = Survivors[ImageRank(o.image)].index
        /\ {PathOf(o) : o \in outputs} = {PairPath(p) : p \in Pairs}
        /\ Cardinality(outputs) = Cardinality(Pairs)

\* C1 as amended: the i-th image in name order goes with the i-th surviving
\* row; the output files are exactly the paths folder/strip(File Name).jpg of
\* the (paired row, non-empty folder) pairs, each last written by a row that
\* names it; there are as many files as pairs when those paths are pairwise
\* distinct (rows or folder columns that repeat a path overwrite one file).
C1_Pairing ==
    /\ last # <<>> =>
          /\ last[1].pos = ImageRank(last[1].image)
          /\ last[1].index = Survivors[last[1].pos].index
    /\ CleanRun =>
          /\ Cardinality(Images) <= Len(Survivors)
          /\ \A o \in outputs :
                /\ o.row = Survivors[ImageRank(o.image)].index
                /\ \E p \in Pairs : p[1] = ImageRank(o.image) /\ PairPath(p) = PathOf(o)
          /\ {PathOf(o) : o \in outputs} = {PairPath(p) : p \in Pairs}
          /\ PathsDistinct => Cardinality(outputs) = Cardinality(Pairs)

C1_Witness ==
    /\ CleanRun
    /\ Cardinality(Images) = 3
    /\ Len(Survivors) = 3
    /\ PathsDistinct
    /\ Cardinality(outputs) = Cardinality(Pairs)
    /\ Cardinality(outputs) > 3

\* C2: with more image files than surviving rows the run reports it and
\* returns before any row: nothing opened, no folder, no file, clock untouched.
C2_AbortBeforeProcessing ==
    (Cardinality(Images) > Len(Survivors) /\ pc # "start") =>
        /\ pc = "aborted"
        /\ \E e \in log : e.kind = "count_error"
        /\ opened = {} /\ dirs = {} /\ outputs = {}
        /\ processed = {} /\ last = <<>>
        /\ current_datetime = base_datetime

C2_Witness ==
    /\ pc = "aborted"
    /\ Cardinality(Images) = Len(Survivors) + 1
    /\ Len(Survivors) >= 1

\* C3: a failure in opening, rendering or saving one row never aborts the
\* batch: the run goes on (and ends only with every image processed), and a
\* row that does not fail saves exactly the files of its own folders and name,
\* whatever failed before it.
C3_FailureIsolated ==
    /\ pc # "crashed"
    /\ pc = "done" => /\ idx = Cardinality(Images)
                      /\ Cardinality(processed) = Cardinality(Images)
    /\ last # <<>> =>
          LET l == last[1]
              want == [j \in 1..Len(output_folders(l.row)) |->
                         [folder |-> output_folders(l.row)[j],
                          name |-> strip(l.row.FileName) \o <<".jpg">>]]
          IN /\ l.res.error => pc \in {"loop", "done"}
             /\ ~l.res.error =>
                   /\ l.res.saved = want
                   /\ \A q \in Range(want) :
                        \E o \in outputs : PathOf(o) = q /\ o.row = l.index

C3_Witness ==
    /\ pc = "done"
    /\ last # <<>>
    /\ ~last[1].res.error
    /\ Len(last[1].res.saved) >= 1
    /\ Cardinality(failed) >= 2
    /\ \E e \in log : e.kind = "error"

\* C4 as stated: a row whose identifier matches no source image is skipped
\* with a warning, and the rows that do match are processed with their image.
C4_Original ==
    pc = "done" =>
        \A i \in 1..Len(Survivors) :
            LET r == Survivors[i]
                matches == {f \in Images : f.base = r.row.id}
            IN IF matches = {}
               THEN /\ r.index \notin processed
                    /\ \E e \in log : e.kind = "skip" /\ e.base = r.row.id
               ELSE /\ r.index \in processed
                    /\ \A o \in outputs : o.row = r.index => o.image \in matches

\* C5: when the sum of the clock and the increment has hour >= 16, the
\* timestamp of the row is on the day after the previous row's, at hour 8,
\* minute 0..10, second 0..59, microsecond 0.
C5_Rollover ==
    (last # <<>> /\ hour(last[1].sum) >= 16) =>
        /\ last[1].ts.day = last[1].prev_day + 1
        /\ hour(last[1].ts) = 8
        /\ minute(last[1].ts) \in 0..10
        /\ second(last[1].ts) \in 0..59
        /\ last[1].ts.us = 0
        /\ current_datetime = last[1].ts

C5_Witness ==
    /\ last # <<>>
    /\ hour(last[1].sum) = 16 /\ minute(last[1].sum) = 0 /\ second(last[1].sum) = 0
    /\ minute(last[1].ts) = 10

Later(a, b) == a.day > b.day \/ (a.day = b.day /\ a.sec > b.sec)

\* C6: the timestamp of each row is strictly later than that of the row
\* before (the initial clock 2025-07-01 08:00 for the first row) and its hour
\* h has 8 <= h < 16.
C6_MonotoneInWindow ==
    [][idx' = idx + 1 =>
          /\ Later(current_datetime', current_datetime)
          /\ hour(current_datetime') >= 8
          /\ hour(current_datetime') < 16
          /\ last'[1].ts = current_datetime'
          /\ last'[1].exif_datetime = exif_strftime(current_datetime')
          /\ (idx = 0 => current_datetime = [day |-> 0, sec |-> 28800, us |-> 0])]_vars

C6_Witness ==
    /\ last # <<>>
    /\ last[1].pos >= 2
    /\ last[1].ts.day = 1
    /\ last[1].prev_day = 1
    /\ hour(last[1].ts) = 8

\* C7 as stated: for |lat| < 90, |lon| < 180, to_deg gives d, m, s with
\* d + m/60 + s/360000 <= |v| < d + m/60 + (s+1)/360000, 0 <= m <= 59,
\* 0 <= s <= 5999, and the positive reference exactly when v >= 0.
C7_Original ==
    deg_out # <<>> =>
        LET v == deg_in[1].value
            d == deg_out[1].dms[1][1]
            m == deg_out[1].dms[2][1]
            s == deg_out[1].dms[3][1]
            total == d * 360000 + m * 6000 + s
            a == Abs(v.num) * 360000
        IN /\ deg_out[1].dms[1][2] = 1 /\ deg_out[1].dms[2][2] = 1
           /\ deg_out[1].dms[3][2] = 100
           /\ m >= 0 /\ m <= 59 /\ s >= 0 /\ s <= 5999
           /\ total * v.den <= a
           /\ a - total * v.den < v.den
           /\ (deg_out[1].ref \in {"N", "E"}) <=> (v.num >= 0)

TwoNumbers(text) ==
    LET toks == split(replace_degree(text))
    IN Len(toks) = 2 /\ IsFloat(toks[1]) /\ IsFloat(toks[2])

\* C8 as stated: every row whose coordinate field is empty or malformed is
\* still processed and saved to its folders, without geotag, and its second
\* watermark line is the raw coordinate text unchanged.
C8_Original ==
    /\ (pc \in {"done", "aborted"} /\ Cardinality(Images) >= Len(csv_rows)) =>
          \A i \in 1..Len(csv_rows) :
              (notna(csv_rows[i].FileName) /\ ~TwoNumbers(csv_rows[i].LONGLAT))
                  => i \in processed
    /\ (last # <<>> /\ ~TwoNumbers(last[1].row.LONGLAT)) =>
          /\ ~last[1].res.geotagged
          /\ last[1].lines[2] = last[1].row.LONGLAT

\* C8 as amended: every row that survives the required-field filter (a row
\* with an empty coordinate field is dropped) and whose coordinate text does
\* not parse to exactly two numbers is processed without geotag (the EXIF
\* block saved is the one loaded), is saved to each of its folders unless
\* opening, rendering or saving raises, and its second watermark line is the
\* coordinate text stripped of surrounding whitespace.
C8_MalformedCoordinates ==
    /\ \A i \in 1..Len(csv_rows) : csv_rows[i].LONGLAT = NaN => i \notin processed
    /\ (last # <<>> /\ ~TwoNumbers(last[1].row.LONGLAT)) =>
          LET l == last[1]
          IN /\ ~l.res.geotagged
             /\ l.res.exif_out = l.res.exif_in
             /\ l.res.exif_in = (IF ExifBytes(l.image).present
                                 THEN ExifBytes(l.image).data ELSE EmptyExif)
             /\ l.lines[2] = strip(l.row.LONGLAT)
             /\ ~l.res.error =>
                   /\ Len(l.res.saved) = Len(output_folders(l.row))
                   /\ \A j \in 1..Len(l.res.saved) :
                        /\ l.res.saved[j].folder = output_folders(l.row)[j]
                        /\ \E o \in outputs : PathOf(o) = l.res.saved[j] /\ o.row = l.index

C8_Witness ==
    /\ last # <<>>
    /\ last[1].row.LONGLAT = <<" ", "1", " ">>
    /\ ExifBytes(last[1].image).present
    /\ last[1].res.exif_out["GPS"] = RichExif["GPS"]
    /\ ~last[1].res.error
    /\ Len(last[1].res.saved) = 2
    /\ \E i \in 1..Len(csv_rows) : csv_rows[i].LONGLAT = NaN

NonEmptyField(cell) == notna(cell) /\ strip(cell) # <<>>

\* C9 as stated: the watermark lines are the display timestamp, the
\* coordinate text, then each non-empty descriptive field in column order,
\* with no empty line for a missing or blank field.
C9_Original ==
    last # <<>> =>
        /\ last[1].lines = <<display_strftime(last[1].ts), strip(last[1].row.LONGLAT)>>
                             \o StripAll(SelectSeq(last[1].row.wm, NonEmptyField))
        /\ \A j \in 3..Len(last[1].lines) : last[1].lines[j] # <<>>

DateAndPositionTags ==
    {<<"0th", "DateTime">>, <<"Exif", "DateTimeOriginal">>, <<"Exif", "DateTimeDigitized">>,
     <<"GPS", "GPSLatitude">>, <<"GPS", "GPSLatitudeRef">>,
     <<"GPS", "GPSLongitude">>, <<"GPS", "GPSLongitudeRef">>}

\* C10 as stated: every metadata field of the source other than the three
\* date/time fields and the GPS latitude/longitude values and references has
\* the same value in the output image.
C10_Original ==
    (last # <<>> /\ Len(last[1].res.saved) >= 1) =>
        LET src == IF ExifBytes(last[1].image).present
                   THEN ExifBytes(last[1].image).data ELSE EmptyExif
            out == last[1].res.exif_out
        IN \A g \in DOMAIN src : \A t \in DOMAIN src[g] :
              <<g, t>> \notin DateAndPositionTags =>
                  /\ t \in DOMAIN out[g]
                  /\ out[g][t] = src[g][t]

====
